---------------------------- MODULE Spec2Model ----------------------------
(***************************************************************************)
(* Model of document_merge_service/api/views.py: walk_nested, the          *)
(* TemplateView.merge handler and DownloadTemplateView.retrieve.            *)
(*                                                                         *)
(* Strings that are concatenated or split (slugs, file names, extensions,  *)
(* format names, header values) are sequences of one-character strings.    *)
(* Strings that are only compared (MIME types, error names) are TLA+       *)
(* strings.  Byte strings are sequences of small naturals.                 *)
(***************************************************************************)
EXTENDS Naturals, Sequences, FiniteSets

\* Longest rendered document, in bytes.
MaxDocLen == 3
\* Size of the write buffer of the temporary file, in bytes (scaled down).
BufferSize == 2
\* Longest list of a tree handed to walk_nested.
MaxLen == 2

(***************************************************************************)
(* Python values                                                           *)
(***************************************************************************)
\* Python's None where a character string is expected.
None == <<"<None>">>
\* Python's None where a MIME type is expected.
NoType == "<None>"

Range(s) == {s[i] : i \in 1..Len(s)}

\* Scalar leaves of a request's data.  RichText is docxtpl's marker object.
Scalar(ty, val) == [tag |-> "scalar", ty |-> ty, val |-> val]
RichText(value) == Scalar("RichText", value.val)

Leaves ==
    { Scalar("int", <<"4", "2">>),
      Scalar("str", <<"a", "b">>),
      Scalar("str", <<"a", "\n", "b">>) }

Dict(m) == [tag |-> "dict", map |-> m]
List(s) == [tag |-> "list", elems |-> s]

(***************************************************************************)
(* walk_nested (views.py 18-23)                                            *)
(***************************************************************************)
\* A plausible slip: lists are returned as they are, without recursion.
RECURSIVE walk_nested_skips_lists(_, _)
walk_nested_skips_lists(data, fn) ==
    IF data.tag = "dict"
    THEN Dict([key \in DOMAIN data.map |-> walk_nested_skips_lists(data.map[key], fn)])
    ELSE IF data.tag = "list"
    THEN data
    ELSE fn[data]

RECURSIVE walk_nested(_, _)
walk_nested(data, fn) ==
    IF data.tag = "dict"
    THEN Dict([key \in DOMAIN data.map |-> walk_nested(data.map[key], fn)])
    ELSE IF data.tag = "list"
    THEN List([i \in 1..Len(data.elems) |-> walk_nested(data.elems[i], fn)])
    ELSE fn[data]

\* The rule of TemplateView.merge (views.py 61-64).
transform(value) ==
    IF value.ty = "str" /\ "\n" \in Range(value.val)
    THEN RichText(value)
    ELSE value

\* Every scalar a rule can meet, the markers included.
Scalars == Leaves \cup {RichText(v) : v \in Leaves}

\* The rules walk_nested is exercised with: the handler's, a no-op, and one
\* that rewrites every leaf.
RuleNames == {"transform", "noop", "blank"}
Rule(name) ==
    [v \in Scalars |->
        IF name = "transform" THEN transform(v)
        ELSE IF name = "noop" THEN v
        ELSE Scalar("null", <<>>)]

\* Bounded trees: scalars, containers of scalars, containers of those.
Keys == {"k1", "k2"}
ListsOf(S) == UNION {[1..n -> S] : n \in 0..MaxLen}
DictsOf(S) == UNION {[K -> S] : K \in SUBSET Keys}
Trees1 == Leaves \cup {List(s) : s \in ListsOf(Leaves)}
                 \cup {Dict(m) : m \in DictsOf(Leaves)}
Dicts1 == {Dict(m) : m \in DictsOf(Leaves)}
Trees == Trees1 \cup {Dict(m) : m \in DictsOf(Trees1)}
                \cup {List(s) : s \in ListsOf(Dicts1)}

(***************************************************************************)
(* mimetypes, as used at views.py 52, 56, 114, 115                         *)
(***************************************************************************)
\* str + str
Cat(a, b) == a \o b

\* posixpath.splitext: the extension starts at the last dot, unless that dot
\* leads the name; no dot, no extension.
LastDot(name) ==
    LET dots == {i \in 1..Len(name) : name[i] = "."}
    IN  IF dots = {} THEN 0 ELSE CHOOSE i \in dots : \A j \in dots : j <= i
splitext_ext(name) ==
    IF LastDot(name) <= 1 THEN <<>> ELSE SubSeq(name, LastDot(name), Len(name))

DocxType == "application/vnd.openxmlformats-officedocument.wordprocessingml.document"
ext_docx == <<".", "d", "o", "c", "x">>
ext_htm == <<".", "h", "t", "m">>
ext_html == <<".", "h", "t", "m", "l">>

\* mimetypes.guess_type(name)[0]: the type of the name's extension, or None.
guess_type(name) ==
    LET ext == splitext_ext(name)
    IN  IF ext = ext_docx THEN DocxType
        ELSE IF ext = ext_htm \/ ext = ext_html THEN "text/html"
        ELSE NoType

\* mimetypes.guess_extension(type) raises AttributeError on None
\* (type.lower()); otherwise it returns an extension with its leading dot.
guess_extension_raises(type) == type = NoType
guess_extension(type) ==
    IF type = DocxType THEN ext_docx
    ELSE IF type = "text/html" THEN ext_html
    ELSE None

ForceDownload == "application/force-download"

(***************************************************************************)
(* Settings and requests                                                   *)
(***************************************************************************)
pdf == <<"p", "d", "f">>
text == <<"t", "e", "x", "t">>
txt == <<"t", "x", "t">>
odt == <<"o", "d", "t">>

\* settings.UNOCONV_FORMATS: format name -> extension and MIME type.
UNOCONV_FORMATS_KEYS == {pdf, text}
UNOCONV_FORMATS(fmt) ==
    IF fmt = pdf THEN [extension |-> pdf, mime |-> "application/pdf"]
    ELSE [extension |-> txt, mime |-> "text/plain"]

Slugs == {<<"s">>}
TemplateNames ==
    { <<"x", ".", "d", "o", "c", "x">>,
      <<"a", ".", "h", "t", "m">>,
      <<"x", ".", "z", "z">>,
      <<"x">> }
\* serializer.data.get("convert"): absent, empty, or a format name.
ConvertValues == {None, <<>>, pdf, text, odt}
DataValues ==
    { Dict([k \in {"k1"} |-> Scalar("str", <<"a", "b">>)]),
      Dict([k \in {"k1"} |-> Scalar("str", <<"a", "\n", "b">>)]),
      Dict([k \in {"k1"} |-> List(<<Scalar("str", <<"a", "\n", "b">>),
                                     Scalar("int", <<"4", "2">>)>>)]) }

\* One request and the deployment it meets.
Requests ==
    [ endpoint : {"merge", "download"},
      exists : BOOLEAN,              \* get_object() finds the template
      slug : Slugs,                  \* template.slug
      name : TemplateNames,          \* template.template.name
      engine_known : BOOLEAN,        \* engines.get_engine knows template.engine
      valid : BOOLEAN,               \* serializer.is_valid
      data : DataValues,             \* serializer.data["data"]
      convert : ConvertValues,
      UNOCONV_LOCAL : BOOLEAN ]

\* Rendered documents: n bytes 1, 2, .., n.
Document(n) == [i \in 1..n |-> i]
Documents == {Document(n) : n \in 0..MaxDocLen}
\* What a converter (local or remote) can answer.
ConverterOutputs == {<<>>, <<9>>, <<1>>}
ReturnCodes == {0, 1, 2}
RemoteStatuses == {200, 400, 500}
ResultTypes == {"application/pdf", "text/plain"}

\* HttpResponse(content=..., status=..., content_type=...)
HttpResponse(content, status, content_type) ==
    [content |-> content, status |-> status, content_type |-> content_type,
     disposition |-> None, content_length |-> <<>>]
NoResponse == HttpResponse(<<>>, 0, NoType)
NoResult == [returncode |-> 0, stdout |-> <<>>, content_type |-> NoType]

VARIABLES input, rule, output, wpc,
          req,              \* the request being served
          pc,               \* the handler's position
          outcome,          \* "running", "response" or the error raised
          response,         \* the local variable response
          content_type,     \* the local variable content_type (mime_type)
          extension,        \* the local variable extension
          data,             \* the local variable data
          rendered,         \* the bytes engine.merge wrote
          engineRaised,     \* engine.merge raised a render error
          mergeCalls,       \* calls of engine.merge
          tmpCreated,       \* temporary files created
          tmpExists,        \* the temporary file is on the filesystem
          tmpDisk,          \* the bytes readable at tmp.name
          tmpBuf,           \* the bytes held in tmp's write buffer
          unoconvCalls,     \* calls of unoconv.process
          seenByConverter,  \* the bytes at tmp.name when unoconv.process ran
          result,           \* the local variable result
          httpPosts,        \* calls of requests.post
          requests_response \* the local variable requests_response

wvars == <<input, rule, output, wpc>>
hvars == <<req, pc, outcome, response, content_type, extension, data, rendered,
           engineRaised,
           mergeCalls, tmpCreated, tmpExists, tmpDisk, tmpBuf, unoconvCalls,
           seenByConverter, result, httpPosts, requests_response>>
vars == <<wvars, hvars>>

NoTree == Scalar("null", <<>>)

WalkIdle ==
    /\ input = NoTree
    /\ rule = "noop"
    /\ output = NoTree
    /\ wpc = "idle"

HandlerStart ==
    /\ outcome = "running"
    /\ response = NoResponse
    /\ content_type = NoType
    /\ extension = None
    /\ data = NoTree
    /\ rendered = <<>>
    /\ engineRaised = FALSE
    /\ mergeCalls = 0
    /\ tmpCreated = 0
    /\ tmpExists = FALSE
    /\ tmpDisk = <<>>
    /\ tmpBuf = <<>>
    /\ unoconvCalls = 0
    /\ seenByConverter = <<>>
    /\ result = NoResult
    /\ httpPosts = 0
    /\ requests_response = [content |-> <<>>, status_code |-> 0]

(***************************************************************************)
(* walk_nested on its own                                                  *)
(***************************************************************************)
WalkInit ==
    /\ input \in Trees
    /\ rule \in RuleNames
    /\ output = NoTree
    /\ wpc = "call"
    /\ req = CHOOSE r \in Requests : TRUE
    /\ pc = "idle"
    /\ HandlerStart

\* data = walk_nested(serializer.data["data"], transform), for any rule.
Walk ==
    /\ wpc = "call"
    /\ output' = walk_nested(input, Rule(rule))
    /\ wpc' = "returned"
    /\ UNCHANGED <<input, rule>>
    /\ UNCHANGED hvars

WalkNext == Walk

SpecWalk == WalkInit /\ [][WalkNext]_vars

(***************************************************************************)
(* Helpers of the handlers                                                 *)
(***************************************************************************)
\* if convert: None and "" are falsy.
TruthyOrEmpty(convert) == convert /= None
Truthy(convert) == convert /= None /\ convert /= <<>>

\* views.py 71-72, 89: which step follows engine.merge.
ConvertBranch(convert, local) ==
    IF ~Truthy(convert) THEN "finalize"
    ELSE IF local THEN "tmp_open"
    ELSE "post"

\* views.py 81-83
AlwaysOk(returncode) == 200
LocalStatus(returncode) == IF returncode = 0 THEN 200 ELSE 500

\* io.BufferedWriter.write on a file opened "wb": bytes that fit stay in the
\* buffer; otherwise the buffer is flushed first, and what is longer than the
\* buffer is written through.  [buf, disk] after the write.
BufferedWrite(buf, disk, bytes) ==
    IF Len(buf) + Len(bytes) <= BufferSize
    THEN [buf |-> buf \o bytes, disk |-> disk]
    ELSE IF Len(bytes) > BufferSize
    THEN [buf |-> <<>>, disk |-> disk \o buf \o bytes]
    ELSE [buf |-> bytes, disk |-> disk \o buf]

\* Whether the temporary file is still on the filesystem once the with block
\* of views.py 73-79 is left, normally or by an exception.
LeakOnException(raised) == raised
WithExit(raised) == FALSE

\* f'attachment; filename="{filename}"'
AttachmentPrefix ==
    <<"a", "t", "t", "a", "c", "h", "m", "e", "n", "t", ";", " ",
      "f", "i", "l", "e", "n", "a", "m", "e", "=", "\"">>
ContentDisposition(filename) == Cat(Cat(AttachmentPrefix, filename), <<"\"">>)

\* template.template.read() and template.template.size
StoredBytes == <<5, 6>>

\* engines.get_engine fails on an engine identifier it does not know.
get_engine_raises(r) == ~r.engine_known

(***************************************************************************)
(* The handlers                                                            *)
(***************************************************************************)
Init ==
    /\ WalkIdle
    /\ req \in Requests
    /\ pc = "get_object"
    /\ HandlerStart

\* An exception leaves the handler.
Raise(error) ==
    /\ outcome' = error
    /\ pc' = "done"

\* views.py 68 sits in no try block: a render error leaves the handler.
RenderErrorSwallowed ==
    /\ pc' = ConvertBranch(req.convert, req.UNOCONV_LOCAL)
    /\ UNCHANGED <<outcome, rendered, response>>
RenderFailed ==
    /\ Raise("RenderError")
    /\ UNCHANGED <<rendered, response>>

\* template = self.get_object()   (views.py 49, 112)
GetObject ==
    /\ pc = "get_object"
    /\ IF req.exists
       THEN /\ pc' = IF req.endpoint = "merge" THEN "get_engine" ELSE "retrieve_guess"
            /\ UNCHANGED outcome
       ELSE Raise("NotFound")
    /\ UNCHANGED <<wvars, req, response, content_type, extension, data, rendered,
                   engineRaised, mergeCalls, tmpCreated, tmpExists, tmpDisk, tmpBuf,
                   unoconvCalls, seenByConverter, result, httpPosts,
                   requests_response>>

\* engine = engines.get_engine(template.engine, template.template)  (views.py 50)
GetEngine ==
    /\ pc = "get_engine"
    /\ IF get_engine_raises(req)
       THEN Raise("ConfigurationError")
       ELSE pc' = "guess" /\ UNCHANGED outcome
    /\ UNCHANGED <<wvars, req, response, content_type, extension, data, rendered,
                   engineRaised, mergeCalls, tmpCreated, tmpExists, tmpDisk, tmpBuf,
                   unoconvCalls, seenByConverter, result, httpPosts,
                   requests_response>>

\* views.py 52-56: the base content type, the response, the extension.
GuessType ==
    /\ pc = "guess"
    /\ content_type' = guess_type(req.name)
    /\ response' = HttpResponse(<<>>, 200,
                       IF content_type' /= NoType THEN content_type' ELSE ForceDownload)
    /\ IF guess_extension_raises(content_type')
       THEN Raise("AttributeError") /\ UNCHANGED extension
       ELSE /\ extension' = guess_extension(content_type')
            /\ pc' = "validate"
            /\ UNCHANGED outcome
    /\ UNCHANGED <<wvars, req, data, rendered, engineRaised, mergeCalls, tmpCreated, tmpExists,
                   tmpDisk, tmpBuf, unoconvCalls, seenByConverter, result,
                   httpPosts, requests_response>>

\* serializer.is_valid(raise_exception=True)  (views.py 58-59)
Validate ==
    /\ pc = "validate"
    /\ IF req.valid
       THEN pc' = "transform" /\ UNCHANGED outcome
       ELSE Raise("ValidationError")
    /\ UNCHANGED <<wvars, req, response, content_type, extension, data, rendered,
                   engineRaised, mergeCalls, tmpCreated, tmpExists, tmpDisk, tmpBuf,
                   unoconvCalls, seenByConverter, result, httpPosts,
                   requests_response>>

\* data = walk_nested(serializer.data["data"], transform)  (views.py 61-66)
Transform ==
    /\ pc = "transform"
    /\ data' = walk_nested(req.data, Rule("transform"))
    /\ pc' = "engine_merge"
    /\ UNCHANGED <<wvars, req, outcome, response, content_type, extension, rendered,
                   engineRaised, mergeCalls, tmpCreated, tmpExists, tmpDisk, tmpBuf,
                   unoconvCalls, seenByConverter, result, httpPosts,
                   requests_response>>

\* response = engine.merge(data, response); convert = ...  (views.py 68-72, 89)
\* The engine writes the rendered bytes into the response, or raises.
EngineMerge ==
    /\ pc = "engine_merge"
    /\ mergeCalls' = mergeCalls + 1
    /\ \E ok \in BOOLEAN :
          /\ engineRaised' = ~ok
          /\ IF ok
             THEN \E doc \in Documents :
                     /\ rendered' = doc
                     /\ response' = [response EXCEPT !.content = doc]
                     /\ pc' = ConvertBranch(req.convert, req.UNOCONV_LOCAL)
                     /\ UNCHANGED outcome
             ELSE RenderFailed
    /\ UNCHANGED <<wvars, req, content_type, extension, data, tmpCreated,
                   tmpExists, tmpDisk, tmpBuf, unoconvCalls, seenByConverter,
                   result, httpPosts, requests_response>>

\* with NamedTemporaryFile("wb") as tmp:  (views.py 73)
TmpOpen ==
    /\ pc = "tmp_open"
    /\ \E ok \in BOOLEAN :
          IF ok
          THEN /\ tmpCreated' = tmpCreated + 1
               /\ tmpExists' = TRUE
               /\ tmpDisk' = <<>>
               /\ tmpBuf' = <<>>
               /\ pc' = "tmp_write"
               /\ UNCHANGED outcome
          ELSE Raise("OSError") /\ UNCHANGED <<tmpCreated, tmpExists, tmpDisk, tmpBuf>>
    /\ UNCHANGED <<wvars, req, response, content_type, extension, data, rendered,
                   engineRaised, mergeCalls, unoconvCalls, seenByConverter, result, httpPosts,
                   requests_response>>

\* tmp.write(response.content)  (views.py 74); an exception leaves the with
\* block.
TmpWrite ==
    /\ pc = "tmp_write"
    /\ \E ok \in BOOLEAN :
          IF ok
          THEN LET w == BufferedWrite(tmpBuf, tmpDisk, response.content)
               IN  /\ tmpBuf' = w.buf
                   /\ tmpDisk' = w.disk
                   /\ pc' = "unoconv"
                   /\ UNCHANGED <<outcome, tmpExists>>
          ELSE /\ Raise("OSError")
               /\ tmpExists' = WithExit(TRUE)
               /\ UNCHANGED <<tmpDisk, tmpBuf>>
    /\ UNCHANGED <<wvars, req, response, content_type, extension, data, rendered,
                   engineRaised, mergeCalls, tmpCreated, unoconvCalls, seenByConverter, result,
                   httpPosts, requests_response>>

\* result = unoconv.process(tmp.name, convert), then the with block is left
\* (views.py 75-79): the converter reads what is on the filesystem at
\* tmp.name, and answers or fails to run; closing tmp flushes its buffer.
UnoconvProcess ==
    /\ pc = "unoconv"
    /\ unoconvCalls' = unoconvCalls + 1
    /\ seenByConverter' = tmpDisk
    /\ tmpDisk' = tmpDisk \o tmpBuf
    /\ tmpBuf' = <<>>
    /\ \E ok \in BOOLEAN :
          IF ok
          THEN \E rc \in ReturnCodes, out \in ConverterOutputs, ct \in ResultTypes :
                  /\ result' = [returncode |-> rc, stdout |-> out, content_type |-> ct]
                  /\ tmpExists' = WithExit(FALSE)
                  /\ pc' = "local_response"
                  /\ UNCHANGED outcome
          ELSE /\ Raise("OSError")
               /\ tmpExists' = WithExit(TRUE)
               /\ UNCHANGED result
    /\ UNCHANGED <<wvars, req, response, content_type, extension, data, rendered,
                   engineRaised, mergeCalls, tmpCreated, httpPosts, requests_response>>

\* views.py 80-88
LocalResponse ==
    /\ pc = "local_response"
    /\ extension' = req.convert
    /\ response' = HttpResponse(result.stdout, LocalStatus(result.returncode),
                                result.content_type)
    /\ pc' = "finalize"
    /\ UNCHANGED <<wvars, req, outcome, content_type, data, rendered, engineRaised,
                   mergeCalls,
                   tmpCreated, tmpExists, tmpDisk, tmpBuf, unoconvCalls,
                   seenByConverter, result, httpPosts, requests_response>>

\* requests_response = requests.post(url, files=...)  (views.py 90-91)
RemotePost ==
    /\ pc = "post"
    /\ httpPosts' = httpPosts + 1
    /\ \E ok \in BOOLEAN :
          IF ok
          THEN \E st \in RemoteStatuses, body \in ConverterOutputs :
                  /\ requests_response' = [content |-> body, status_code |-> st]
                  /\ pc' = "remote_lookup"
                  /\ UNCHANGED outcome
          ELSE Raise("ConnectionError") /\ UNCHANGED requests_response
    /\ UNCHANGED <<wvars, req, response, content_type, extension, data, rendered,
                   engineRaised, mergeCalls, tmpCreated, tmpExists, tmpDisk, tmpBuf,
                   unoconvCalls, seenByConverter, result>>

\* fmt = settings.UNOCONV_FORMATS[convert] and the response  (views.py 92-100)
RemoteLookup ==
    /\ pc = "remote_lookup"
    /\ IF req.convert \notin UNOCONV_FORMATS_KEYS
       THEN Raise("KeyError") /\ UNCHANGED <<extension, content_type, response>>
       ELSE LET fmt == UNOCONV_FORMATS(req.convert)
            IN  /\ extension' = fmt.extension
                /\ content_type' = fmt.mime
                /\ response' = HttpResponse(requests_response.content,
                                            requests_response.status_code,
                                            fmt.mime)
                /\ pc' = "finalize"
                /\ UNCHANGED outcome
    /\ UNCHANGED <<wvars, req, data, rendered, engineRaised, mergeCalls, tmpCreated, tmpExists,
                   tmpDisk, tmpBuf, unoconvCalls, seenByConverter, result,
                   httpPosts, requests_response>>

\* filename, Content-Disposition, return response  (views.py 102-104)
Finalize ==
    /\ pc = "finalize"
    /\ LET filename == Cat(Cat(req.slug, <<".">>), extension)
       IN  response' = [response EXCEPT !.disposition = ContentDisposition(filename)]
    /\ outcome' = "response"
    /\ pc' = "done"
    /\ UNCHANGED <<wvars, req, content_type, extension, data, rendered, engineRaised,
                   mergeCalls,
                   tmpCreated, tmpExists, tmpDisk, tmpBuf, unoconvCalls,
                   seenByConverter, result, httpPosts, requests_response>>

\* DownloadTemplateView.retrieve, views.py 114-116
RetrieveGuess ==
    /\ pc = "retrieve_guess"
    /\ LET mime_type == guess_type(req.name)
       IN  IF guess_extension_raises(mime_type)
           THEN Raise("AttributeError") /\ UNCHANGED <<extension, content_type>>
           ELSE /\ extension' = guess_extension(mime_type)
                /\ content_type' = IF mime_type /= NoType THEN mime_type ELSE ForceDownload
                /\ pc' = "retrieve_respond"
                /\ UNCHANGED outcome
    /\ UNCHANGED <<wvars, req, response, data, rendered, engineRaised, mergeCalls, tmpCreated,
                   tmpExists, tmpDisk, tmpBuf, unoconvCalls, seenByConverter,
                   result, httpPosts, requests_response>>

\* DownloadTemplateView.retrieve, views.py 118-124
RetrieveRespond ==
    /\ pc = "retrieve_respond"
    /\ response' =
          [HttpResponse(StoredBytes, 200, content_type) EXCEPT
              !.disposition = ContentDisposition(Cat(req.slug, extension)),
              !.content_length = <<Len(StoredBytes)>>]
    /\ outcome' = "response"
    /\ pc' = "done"
    /\ UNCHANGED <<wvars, req, content_type, extension, data, rendered, engineRaised,
                   mergeCalls,
                   tmpCreated, tmpExists, tmpDisk, tmpBuf, unoconvCalls,
                   seenByConverter, result, httpPosts, requests_response>>

Next ==
    \/ GetObject
    \/ GetEngine
    \/ GuessType
    \/ Validate
    \/ Transform
    \/ EngineMerge
    \/ TmpOpen
    \/ TmpWrite
    \/ UnoconvProcess
    \/ LocalResponse
    \/ RemotePost
    \/ RemoteLookup
    \/ Finalize
    \/ RetrieveGuess
    \/ RetrieveRespond

Spec == Init /\ [][Next]_vars

(***************************************************************************)
(* Properties                                                              *)
(***************************************************************************)
IsMerge == req.endpoint = "merge"
ConvertAbsentOrEmpty == req.convert = None \/ req.convert = <<>>
Unrecognized == guess_type(req.name) = NoType
NoConversionEffects ==
    tmpCreated = 0 /\ ~tmpExists /\ unoconvCalls = 0 /\ httpPosts = 0
NoRenderEffects == mergeCalls = 0 /\ NoConversionEffects

\* C1: in remote mode, a non-empty convert value that is no key of
\* UNOCONV_FORMATS makes the call fail with the configuration (missing key)
\* error, and no HTTP request is issued at any point of the call.
C1_UnknownFormatFailsBeforePost ==
    (IsMerge /\ ~req.UNOCONV_LOCAL /\ ~ConvertAbsentOrEmpty
        /\ req.convert \notin UNOCONV_FORMATS_KEYS)
    => /\ httpPosts = 0
       /\ (pc = "done" /\ mergeCalls = 1 /\ ~engineRaised) => outcome = "KeyError"

\* C2: engine.merge and every conversion step run only after the template
\* lookup, the engine construction and the validation have succeeded; a
\* missing template ends in not-found and an invalid payload in a validation
\* error, both with no render or conversion side effect.
C2_RenderOnlyAfterValidation ==
    IsMerge =>
       /\ ~NoRenderEffects => (req.exists /\ req.engine_known /\ req.valid)
       /\ (pc = "done" /\ ~req.exists)
             => (outcome = "NotFound" /\ NoRenderEffects)
       /\ (pc = "done" /\ req.exists /\ req.engine_known /\ ~req.valid)
             => (outcome = "ValidationError" /\ NoRenderEffects)

\* C3: in local mode the temporary file exists only inside the with block:
\* once the conversion step is left (exit code 0, non-zero exit code, or an
\* exception while writing or converting) it is gone, and no merge call
\* creates more than one.
C3_TmpFileRemoved ==
    /\ pc \notin {"tmp_write", "unoconv"} => ~tmpExists
    /\ tmpCreated <= 1
C3_TmpFileRemovedAfterConverterException ==
    /\ pc = "done"
    /\ outcome = "OSError"
    /\ tmpCreated = 1
    /\ unoconvCalls = 1
    /\ ~tmpExists

\* C4: a returned merge response has status 200 without conversion; in local
\* mode 200 for exit code 0 and 500 for any other; in remote mode the remote
\* status with the remote body.  A non-success converter result is answered,
\* not raised, and no converter is called twice.
C4_ResponseStatus ==
    /\ (IsMerge /\ outcome = "response") =>
          /\ ConvertAbsentOrEmpty => response.status = 200
          /\ (~ConvertAbsentOrEmpty /\ req.UNOCONV_LOCAL) =>
                /\ result.returncode = 0 => response.status = 200
                /\ result.returncode /= 0 => response.status = 500
          /\ (~ConvertAbsentOrEmpty /\ ~req.UNOCONV_LOCAL) =>
                /\ response.status = requests_response.status_code
                /\ response.content = requests_response.content
    /\ (pc = "done" /\ result.returncode /= 0) => outcome = "response"
    /\ (pc = "done" /\ requests_response.status_code \notin {0, 200}
           /\ req.convert \in UNOCONV_FORMATS_KEYS) => outcome = "response"
    /\ unoconvCalls <= 1
    /\ httpPosts <= 1
C4_LocalFailureStatusReturned ==
    /\ IsMerge
    /\ outcome = "response"
    /\ req.UNOCONV_LOCAL
    /\ result.returncode = 2
    /\ response.status = 500

\* C5: a returned merge response without conversion has invoked no converter
\* and its body is the rendered bytes; with conversion exactly the configured
\* strategy ran, exactly once, and the body is exactly its output.
C5_ExactlyOneBody ==
    (IsMerge /\ outcome = "response") =>
        IF ConvertAbsentOrEmpty
        THEN NoConversionEffects /\ response.content = rendered
        ELSE IF req.UNOCONV_LOCAL
        THEN /\ unoconvCalls = 1 /\ tmpCreated = 1 /\ httpPosts = 0
             /\ response.content = result.stdout
        ELSE /\ httpPosts = 1 /\ unoconvCalls = 0 /\ tmpCreated = 0
             /\ response.content = requests_response.content
C5_ConvertedBodyReplacesRendered ==
    /\ IsMerge
    /\ outcome = "response"
    /\ req.convert = pdf
    /\ req.UNOCONV_LOCAL
    /\ Len(rendered) = MaxDocLen
    /\ response.content = <<9>>

\* C6: every merge response carries attachment; filename="<slug>.<ext>", with
\* one dot: ext is the extension of the stored file name without conversion,
\* the format name in local mode, the format table's extension in remote mode.
StoredExtension(name) == SubSeq(name, LastDot(name) + 1, Len(name))
C6_ContentDisposition ==
    (IsMerge /\ outcome = "response") =>
        LET ext == IF ConvertAbsentOrEmpty THEN StoredExtension(req.name)
                   ELSE IF req.UNOCONV_LOCAL THEN req.convert
                   ELSE UNOCONV_FORMATS(req.convert).extension
        IN  response.disposition =
                AttachmentPrefix \o req.slug \o <<".">> \o ext \o <<"\"">>

\* C7: a stored file name of unrecognized MIME type is no error of either
\* endpoint: both answer, with content type application/force-download.
C7_UnrecognizedTypeIsNoError ==
    Unrecognized =>
       /\ outcome /= "AttributeError"
       /\ (pc = "done" /\ ~IsMerge /\ req.exists) =>
             (outcome = "response" /\ response.content_type = ForceDownload)
       /\ (pc = "done" /\ IsMerge /\ outcome = "response" /\ ConvertAbsentOrEmpty) =>
             response.content_type = ForceDownload

\* C8: walk_nested returns a tree of the input's shape (same keys in every
\* mapping, same length and order in every sequence) whose every leaf is
\* rule(leaf), and leaves the input as it was; under the handler's rule a leaf
\* is the rich-text marker exactly when it was a string holding a newline and
\* is unchanged otherwise, so a tree without such a leaf comes back equal.
Mismatch == <<[tag |-> "mismatch"], [tag |-> "mismatch"]>>
RECURSIVE LeafPairs(_, _)
LeafPairs(a, b) ==
    IF a.tag /= b.tag THEN {Mismatch}
    ELSE IF a.tag = "dict"
    THEN IF DOMAIN a.map /= DOMAIN b.map THEN {Mismatch}
         ELSE UNION {LeafPairs(a.map[k], b.map[k]) : k \in DOMAIN a.map}
    ELSE IF a.tag = "list"
    THEN IF Len(a.elems) /= Len(b.elems) THEN {Mismatch}
         ELSE UNION {LeafPairs(a.elems[i], b.elems[i]) : i \in 1..Len(a.elems)}
    ELSE {<<a, b>>}
HasNewline(leaf) ==
    leaf.ty = "str" /\ \E i \in 1..Len(leaf.val) : leaf.val[i] = "\n"
C8_WalkNested ==
    [][(wpc = "call" /\ wpc' = "returned") =>
          LET pairs == LeafPairs(input, output')
          IN  /\ input' = input
              /\ Mismatch \notin pairs
              /\ \A p \in pairs : p[2] = Rule(rule)[p[1]]
              /\ rule = "transform" =>
                    /\ \A p \in pairs :
                          IF HasNewline(p[1])
                          THEN p[2] = [tag |-> "scalar", ty |-> "RichText",
                                       val |-> p[1].val]
                          ELSE p[2] = p[1]
                    /\ (\A p \in pairs : ~HasNewline(p[1])) => output' = input
      ]_vars
C8_NestedNewlineLeafMarked ==
    /\ wpc = "returned"
    /\ rule = "transform"
    /\ input = Dict([k \in {"k1"} |->
                  List(<<Scalar("str", <<"a", "\n", "b">>),
                         Scalar("int", <<"4", "2">>)>>)])
    /\ output = Dict([k \in {"k1"} |->
                  List(<<Scalar("RichText", <<"a", "\n", "b">>),
                         Scalar("int", <<"4", "2">>)>>)])

\* C9: when engine.merge raises a render error the handler ends in that
\* error: no response is returned and no conversion step starts (no temporary
\* file, no converter process, no remote request), whatever convert is.
C9_RenderErrorPropagates ==
    engineRaised =>
       /\ pc = "done"
       /\ outcome = "RenderError"
       /\ NoConversionEffects
C9_RenderErrorWithConvert ==
    /\ engineRaised
    /\ req.convert = pdf
    /\ req.UNOCONV_LOCAL
    /\ pc = "done"
    /\ outcome = "RenderError"

\* C10: when the converter process is invoked on tmp.name, the bytes readable
\* there are the whole rendered document, whatever its length.
C10_ConverterSeesWholeDocument ==
    unoconvCalls > 0 => seenByConverter = rendered

=============================================================================
